---------------------------- MODULE Spec2Model ----------------------------
(***************************************************************************)
(* Model of the coworkany memory-vault RAG service                         *)
(* (src/rag-service/main.py, indexer.py, embeddings.py).                   *)
(*                                                                         *)
(* Text is modelled as a sequence of one-character strings, so that the    *)
(* string operations of the code (strip, split, join, regular-expression   *)
(* matches, title-casing) are computed and not assumed.                    *)
(***************************************************************************)
EXTENDS Integers, Sequences, FiniteSets, Bags, TLC

(***************************************************************************)
(* Python string primitives.                                               *)
(***************************************************************************)

\* str.isspace() for the characters of the model's alphabet
IsSpace(c) == c \in {" ", "\n", "\t"}

Lower == <<"a","b","c","d","e","f","g","h","i","j","k","l","m",
           "n","o","p","q","r","s","t","u","v","w","x","y","z">>
Upper == <<"A","B","C","D","E","F","G","H","I","J","K","L","M",
           "N","O","P","Q","R","S","T","U","V","W","X","Y","Z">>

IsLower(c) == \E i \in 1..Len(Lower) : Lower[i] = c
IsUpper(c) == \E i \in 1..Len(Upper) : Upper[i] = c
IsAlpha(c) == IsLower(c) \/ IsUpper(c)
ToUpper(c) == IF IsLower(c) THEN Upper[CHOOSE i \in 1..Len(Lower) : Lower[i] = c] ELSE c
ToLower(c) == IF IsUpper(c) THEN Lower[CHOOSE i \in 1..Len(Upper) : Upper[i] = c] ELSE c

\* s[i:] with i a 1-based position (the empty string when i > Len(s))
From(s, i) == IF i > Len(s) THEN <<>> ELSE SubSeq(s, i, Len(s))

\* s[:i] up to and including the 1-based position i
UpTo(s, i) == IF i < 1 THEN <<>> ELSE SubSeq(s, 1, IF i > Len(s) THEN Len(s) ELSE i)

\* s.startswith(pat, i-1): pat occurs in s at the 1-based position i
MatchAt(s, i, pat) ==
    /\ i >= 1
    /\ i + Len(pat) - 1 <= Len(s)
    /\ \A k \in 1..Len(pat) : s[i + k - 1] = pat[k]

\* s.find(pat, i-1) as a 1-based position, 0 when pat does not occur
Find(s, pat, i) ==
    LET hits == {j \in i..(Len(s) - Len(pat) + 1) : MatchAt(s, j, pat)}
    IN  IF hits = {} THEN 0 ELSE CHOOSE j \in hits : \A k \in hits : j <= k

\* str.lstrip(), str.rstrip(), str.strip()
RECURSIVE LStrip(_)
LStrip(s) == IF s # <<>> /\ IsSpace(Head(s)) THEN LStrip(Tail(s)) ELSE s

RECURSIVE RStrip(_)
RStrip(s) ==
    IF s # <<>> /\ IsSpace(s[Len(s)]) THEN RStrip(SubSeq(s, 1, Len(s) - 1)) ELSE s

Strip(s) == RStrip(LStrip(s))

\* s.replace(a, b) for single characters a, b
Replace(s, a, b) == [i \in 1..Len(s) |-> IF s[i] = a THEN b ELSE s[i]]

\* s.split(sep) for a non-empty separator sep: always at least one piece
RECURSIVE Split(_, _)
Split(s, sep) ==
    LET j == Find(s, sep, 1)
    IN  IF j = 0 THEN <<s>>
        ELSE <<UpTo(s, j - 1)>> \o Split(From(s, j + Len(sep)), sep)

\* sep.join(parts)
RECURSIVE Join(_, _)
Join(parts, sep) ==
    IF parts = <<>> THEN <<>>
    ELSE IF Len(parts) = 1 THEN parts[1]
    ELSE parts[1] \o sep \o Join(Tail(parts), sep)

\* str.title(): the first letter of every run of letters upper-cased, the
\* other letters of the run lower-cased
Title(s) ==
    [i \in 1..Len(s) |->
        IF i = 1 \/ ~IsAlpha(s[i - 1]) THEN ToUpper(s[i]) ELSE ToLower(s[i])]


\* the characters of a string literal, e.g. S("a/b.md"), are written out
\* as tuples below; Chars names the ones that recur
DASHES == <<"-", "-", "-">>
NL     == <<"\n">>

(***************************************************************************)
(* yaml.safe_load on the frontmatter text (indexer.py line 75).  The YAML  *)
(* subset read here: a block mapping of "key: value" lines whose values    *)
(* are plain scalars, double-quoted scalars or flow sequences "[a, b]";    *)
(* a "- item" block sequence; a single plain scalar; the empty document.   *)
(* Anything else is a YAMLError.                                           *)
(*                                                                         *)
(* A YAML value is [t, s, items]: t = "str" with the text s, t = "seq"     *)
(* with the texts items, or t = "null".                                    *)
(***************************************************************************)
StrVal(s)     == [t |-> "str",  s |-> s,    items |-> <<>>]
SeqVal(items) == [t |-> "seq",  s |-> <<>>, items |-> items]
NullVal       == [t |-> "null", s |-> <<>>, items |-> <<>>]
ErrVal        == [t |-> "error", s |-> <<>>, items |-> <<>>]

\* Python truthiness of a value: None, "" and [] are falsy
Truthy(v) ==
    \/ v.t = "str" /\ v.s # <<>>
    \/ v.t = "seq" /\ v.items # <<>>

\* one flow-sequence item or mapping value: a double-quoted scalar keeps its
\* inner whitespace, a plain scalar is trimmed
YamlScalar(raw) ==
    LET x == Strip(raw)
    IN  IF Len(x) >= 2 /\ x[1] = "\"" /\ x[Len(x)] = "\""
        THEN SubSeq(x, 2, Len(x) - 1)
        ELSE x

YamlValue(raw) ==
    LET x == Strip(raw)
    IN  IF x = <<>> THEN NullVal
        ELSE IF x[1] = "[" THEN
            IF x[Len(x)] # "]" THEN ErrVal
            ELSE LET inner == SubSeq(x, 2, Len(x) - 1)
                 IN  IF Strip(inner) = <<>> THEN SeqVal(<<>>)
                     ELSE LET parts == Split(inner, <<",">>)
                          IN  SeqVal([i \in 1..Len(parts) |-> YamlScalar(parts[i])])
        ELSE IF Find(x, <<":", " ">>, 1) # 0 THEN ErrVal
        ELSE StrVal(YamlScalar(x))

\* "key: value" or "key:" at the start of a line; 0 when the line is neither
KeyEnd(line) ==
    LET j == Find(line, <<":", " ">>, 1)
    IN  IF j # 0 THEN j
        ELSE IF line # <<>> /\ line[Len(line)] = ":" THEN Len(line)
        ELSE 0

IsMappingLine(line) ==
    /\ line # <<>>
    /\ ~IsSpace(line[1])
    /\ line[1] \notin {"-", "[", "\""}
    /\ KeyEnd(line) > 1

IsItemLine(line) == MatchAt(line, 1, <<"-", " ">>)

NonBlank(lines) == SelectSeq(lines, LAMBDA l : Strip(l) # <<>>)

\* the result of yaml.safe_load: kind is "map" (pairs: <<key, value>> in
\* source order), "none", "scalar", "list", "emptylist" or "error"
YamlLoad(text) ==
    LET lines == NonBlank(Split(text, NL))
        pairs == [i \in 1..Len(lines) |->
                    <<UpTo(lines[i], KeyEnd(lines[i]) - 1),
                      YamlValue(From(lines[i], KeyEnd(lines[i]) + 1))>>]
    IN  IF lines = <<>> THEN [kind |-> "none", pairs |-> <<>>]
        ELSE IF \E i \in 1..Len(lines) : "\t" \in {lines[i][k] : k \in 1..Len(lines[i])}
            THEN [kind |-> "error", pairs |-> <<>>]
        ELSE IF \A i \in 1..Len(lines) : IsMappingLine(lines[i]) THEN
            IF \E i \in 1..Len(lines) : pairs[i][2].t = "error"
            THEN [kind |-> "error", pairs |-> <<>>]
            ELSE [kind |-> "map", pairs |-> pairs]
        ELSE IF \A i \in 1..Len(lines) : IsItemLine(lines[i])
            THEN [kind |-> "list", pairs |-> <<>>]
        ELSE IF \E i \in 1..Len(lines) : IsMappingLine(lines[i]) \/ IsItemLine(lines[i])
            THEN [kind |-> "error", pairs |-> <<>>]
        ELSE IF Len(lines) = 1 /\ lines[1][1] = "[" THEN
            (IF YamlValue(lines[1]).t = "error" THEN [kind |-> "error", pairs |-> <<>>]
             ELSE IF YamlValue(lines[1]).items = <<>> THEN [kind |-> "emptylist", pairs |-> <<>>]
             ELSE [kind |-> "list", pairs |-> <<>>])
        ELSE [kind |-> "scalar", pairs |-> <<>>]

\* dict.get(key): the value of the last pair with that key, None when absent
DictGet(pairs, key) ==
    LET hits == {i \in 1..Len(pairs) : pairs[i][1] = key}
    IN  IF hits = {} THEN NullVal
        ELSE pairs[CHOOSE i \in hits : \A k \in hits : k <= i][2]

DictHas(pairs, key) == \E i \in 1..Len(pairs) : pairs[i][1] = key


(***************************************************************************)
(* VaultIndexer.parse_markdown (indexer.py lines 56-112).                  *)
(***************************************************************************)

\* FRONTMATTER_PATTERN = ^---\n(.*?)\n---\n? with DOTALL, matched at the
\* start of the text: hit, group(1) and end() as the next 1-based position
FrontmatterMatch(content) ==
    LET open  == DASHES \o NL
        close == NL \o DASHES
        j     == IF MatchAt(content, 1, open) THEN Find(content, close, 5) ELSE 0
    IN  IF j = 0 THEN [hit |-> FALSE, group |-> <<>>, end |-> 1]
        ELSE [hit   |-> TRUE,
              group |-> SubSeq(content, 5, j - 1),
              end   |-> IF MatchAt(content, j + 4, NL) THEN j + 5 ELSE j + 4]

\* the length of the run of whitespace of s that starts at position i
RECURSIVE SpaceRun(_, _)
SpaceRun(s, i) == IF i <= Len(s) /\ IsSpace(s[i]) THEN 1 + SpaceRun(s, i + 1) ELSE 0

\* the end of the line that holds position p: the position before the next
\* newline, or the end of the text
LineEnd(s, p) ==
    LET j == Find(s, NL, p) IN IF j = 0 THEN Len(s) ELSE j - 1

\* HEADING_PATTERN = ^#\s+(.+)$ with MULTILINE, tried at position i: the
\* start of group(1), 0 when the pattern does not match there.  \s+ is
\* greedy and gives characters back until .+ finds one that is no newline.
HeadingGroupStart(s, i) ==
    LET w    == SpaceRun(s, i + 1)
        good == {m \in 1..w : i + 1 + m <= Len(s) /\ s[i + 1 + m] # "\n"}
    IN  IF ~(i <= Len(s) /\ s[i] = "#" /\ (i = 1 \/ s[i - 1] = "\n")) \/ good = {}
        THEN 0
        ELSE i + 1 + (CHOOSE m \in good : \A k \in good : k <= m)

\* HEADING_PATTERN.search(body): hit and group(1) of the leftmost match
HeadingSearch(body) ==
    LET hits == {i \in 1..Len(body) : HeadingGroupStart(body, i) # 0}
        i    == CHOOSE k \in hits : \A h \in hits : k <= h
        p    == HeadingGroupStart(body, i)
    IN  IF hits = {} THEN [hit |-> FALSE, group |-> <<>>]
        ELSE [hit |-> TRUE, group |-> SubSeq(body, p, LineEnd(body, p))]

\* Path(path).parts for a POSIX path: the root "/" when the path is
\* absolute, then the components that are neither empty nor "."
PathParts(path) ==
    LET comps == SelectSeq(Split(path, <<"/">>), LAMBDA c : c # <<>> /\ c # <<".">>)
    IN  IF path # <<>> /\ path[1] = "/" THEN <<(<<"/">>)>> \o comps ELSE comps

\* Path(path).stem: the last component without its last suffix
PathStem(path) ==
    LET parts == PathParts(path)
        name  == IF parts = <<>> \/ parts[Len(parts)] = <<"/">> THEN <<>>
                 ELSE parts[Len(parts)]
        dots  == {i \in 1..Len(name) : name[i] = "."}
        i     == CHOOSE d \in dots : \A k \in dots : k <= d
    IN  IF dots = {} THEN name
        ELSE IF i > 1 /\ i < Len(name) THEN SubSeq(name, 1, i - 1)
        ELSE name

\* [t.strip() for t in s.split(",")]
SplitStrip(s) == [i \in 1..Len(Split(s, <<",">>)) |-> Strip(Split(s, <<",">>)[i])]

\* the keys the parser looks up
KeyTitle    == <<"t","i","t","l","e">>
KeyCategory == <<"c","a","t","e","g","o","r","y">>
KeyTags     == <<"t","a","g","s">>

\* ResolveCategory that takes the first path part of every path, a
\* single-part path included
ResolveCategoryAnyDepth(metadata, parts) ==
    IF Truthy(DictGet(metadata, KeyCategory)) THEN DictGet(metadata, KeyCategory)
    ELSE IF Len(parts) > 0 THEN StrVal(parts[1])
    ELSE DictGet(metadata, KeyCategory)

\* the category of parse_markdown (indexer.py lines 91-95): the frontmatter
\* category when truthy, else the first part of a path of several parts
ResolveCategory(metadata, parts) ==
    IF Truthy(DictGet(metadata, KeyCategory)) THEN DictGet(metadata, KeyCategory)
    ELSE IF Len(parts) > 1 THEN StrVal(parts[1])
    ELSE DictGet(metadata, KeyCategory)

\* lines 80-112 of parse_markdown, once the frontmatter is read: metadata
\* is the frontmatter's pairs, body the text that follows it.  title,
\* category and tags are YAML values (category NullVal when absent).
BuildDocument(path, metadata, body, heading, parts) ==
    [raised   |-> FALSE,
     path     |-> path,
     title    |-> IF Truthy(DictGet(metadata, KeyTitle)) THEN DictGet(metadata, KeyTitle)
                  ELSE IF heading.hit THEN StrVal(Strip(heading.group))
                  ELSE StrVal(Title(Replace(Replace(PathStem(path), "-", " "), "_", " "))),
     content  |-> Strip(body),
     category |-> ResolveCategory(metadata, parts),
     tags     |-> IF ~DictHas(metadata, KeyTags) THEN SeqVal(<<>>)
                  ELSE IF DictGet(metadata, KeyTags).t = "str"
                  THEN SeqVal(SplitStrip(DictGet(metadata, KeyTags).s))
                  ELSE DictGet(metadata, KeyTags),
     metadata |-> metadata]

\* metadata.get on a frontmatter that is no mapping: AttributeError (line 81)
ParseRaised(path) ==
    [raised |-> TRUE, path |-> path, title |-> NullVal, content |-> <<>>,
     category |-> NullVal, tags |-> NullVal, metadata |-> <<>>]

\* lines 72-78 of parse_markdown: fm is the frontmatter match, loaded what
\* yaml.safe_load made of it.  A YAMLError keeps the whole text as the body
\* and no metadata; None and [] become {} by "or {}".
ParseFrontmatter(content, path, fm, loaded) ==
    IF loaded.kind \in {"scalar", "list"} THEN ParseRaised(path)
    ELSE IF loaded.kind = "map"
    THEN BuildDocument(path, loaded.pairs, From(content, fm.end),
                       HeadingSearch(From(content, fm.end)), PathParts(path))
    ELSE IF loaded.kind = "error"
    THEN BuildDocument(path, <<>>, content, HeadingSearch(content), PathParts(path))
    ELSE BuildDocument(path, <<>>, From(content, fm.end),
                       HeadingSearch(From(content, fm.end)), PathParts(path))

ParseMatched(content, path, fm) ==
    IF fm.hit
    THEN ParseFrontmatter(content, path, fm, YamlLoad(fm.group))
    ELSE BuildDocument(path, <<>>, content, HeadingSearch(content), PathParts(path))

\* parse_markdown(content, path): [raised |-> TRUE] when it raises,
\* otherwise the ParsedDocument
parse_markdown(content, path) == ParseMatched(content, path, FrontmatterMatch(content))

(***************************************************************************)
(* The inputs of the model: vault paths, markdown texts, caller metadata,  *)
(* queries and category filters, each a small set of concrete values.      *)
(***************************************************************************)

\* "n/a.md", "c.md"
PathNA == <<"n","/","a",".","m","d">>
PathC  == <<"c",".","m","d">>
Paths  == {PathNA, PathC}

\* "# A\nx": a level-1 heading, no frontmatter
RawHeading == <<"#"," ","A","\n","x">>
\* "---\ncategory: w\ntags: p, q\n---\ny": frontmatter with category and tags
RawFront ==
    DASHES \o NL \o KeyCategory \o <<":"," ","w">> \o NL
           \o KeyTags \o <<":"," ","p",","," ","q">> \o NL \o DASHES \o NL \o <<"y">>
\* "---\nz\n---\nx": a frontmatter that is a YAML scalar, not a mapping
RawScalar == DASHES \o NL \o <<"z">> \o NL \o DASHES \o NL \o <<"x">>
RawDocs   == {RawHeading, RawFront, RawScalar}

\* request.metadata: None, or a dict of string values (key |-> text)
NoExtra     == <<>>
ExtraSource == <<[key |-> "source", val |-> <<"s">>]>>
\* a caller dict that also names a system field: {"source": "s", "path": "c.md"}
ExtraPath   == ExtraSource \o <<[key |-> "path", val |-> PathC]>>
Extras      == {NoExtra, ExtraPath}

\* the search query "ab"
Queries == {<<"a", "b">>}

\* Optional[str]: <<>> is None, <<s>> is the string s
None    == <<>>
Some(x) == <<x>>

\* filter_category: absent, "", "w"
FilterCategories == {None, Some(<<>>), Some(<<"w">>)}

\* top_k, inside the validated range 1..20 (main.py line 51)
TopKs == {1, 2}

\* the largest clock value
MaxClock == 1

(***************************************************************************)
(* EmbeddingModel.encode (embeddings.py lines 30-54).  The sentence        *)
(* transformer is a deterministic map from text to an L2-normalised        *)
(* vector; here a vector of norm 5 in two dimensions picked by the sum of  *)
(* the character codes, with One = 5 * 5 the fixed-point 1.0 of products.  *)
(***************************************************************************)
One == 25

Directions == <<(<<5, 0>>), (<<4, 3>>), (<<3, 4>>), (<<0, 5>>), (<<-3, 4>>), (<<-4, 3>>), (<<-5, 0>>)>>

Alphabet == <<" ", "\n", "\t", "#", "-", ":", ",", ".", "/", "_", "[", "]", "\"">> \o Lower \o Upper

CharCode(c) ==
    LET hits == {i \in 1..Len(Alphabet) : Alphabet[i] = c}
    IN  IF hits = {} THEN 0 ELSE CHOOSE i \in hits : TRUE

RECURSIVE CodeSum(_)
CodeSum(text) == IF text = <<>> THEN 0 ELSE CharCode(Head(text)) + CodeSum(Tail(text))

encode(text) == Directions[(CodeSum(text) % Len(Directions)) + 1]

Dot(a, b) == a[1] * b[1] + a[2] * b[2]

\* the cosine distance of the collection ("hnsw:space": "cosine", main.py
\* line 147) between two normalised vectors: 1 - cos
CosineDistance(a, b) == One - Dot(a, b)

(***************************************************************************)
(* The ChromaDB collection: a sequence of entries [id, embedding,          *)
(* document, metadata] in the store's internal order, at most one per id.  *)
(***************************************************************************)

\* hashlib.md5(path.encode()).hexdigest(), taken as injective: the digest
\* of a path is a tagged copy of the path
Md5Hex(path) == <<"md5">> \o path

Ids(coll) == {coll[i].id : i \in 1..Len(coll)}

Count(coll) == Len(coll)

\* Upsert as collection.add on a store without a unique id: always append
UpsertAppends(coll, id, embedding, metadata, document) ==
    Append(coll, [id |-> id, embedding |-> embedding,
                  document |-> document, metadata |-> metadata])

\* Upsert that updates the stored metadata dict instead of replacing it
UpsertMergesMetadata(coll, id, embedding, metadata, document) ==
    IF id \in Ids(coll)
    THEN [i \in 1..Len(coll) |->
            IF coll[i].id = id
            THEN [id |-> id, embedding |-> embedding, document |-> document,
                  metadata |-> metadata @@ coll[i].metadata]
            ELSE coll[i]]
    ELSE Append(coll, [id |-> id, embedding |-> embedding,
                       document |-> document, metadata |-> metadata])

\* Upsert as two writes of which the second, the metadata, is lost for an
\* entry that exists
UpsertSplitsWrite(coll, id, embedding, metadata, document) ==
    IF id \in Ids(coll)
    THEN [i \in 1..Len(coll) |->
            IF coll[i].id = id
            THEN [id |-> id, embedding |-> embedding, document |-> document,
                  metadata |-> coll[i].metadata]
            ELSE coll[i]]
    ELSE Append(coll, [id |-> id, embedding |-> embedding,
                       document |-> document, metadata |-> metadata])

\* collection.upsert(ids=[id], ...): replace the entry of that id in place,
\* or append a new one
Upsert(coll, id, embedding, metadata, document) ==
    LET e == [id |-> id, embedding |-> embedding,
              document |-> document, metadata |-> metadata]
    IN  IF id \in Ids(coll)
        THEN [i \in 1..Len(coll) |-> IF coll[i].id = id THEN e ELSE coll[i]]
        ELSE Append(coll, e)

\* Delete that compares the id with the stored path, not the stored id
DeleteByPath(coll, id) == SelectSeq(coll, LAMBDA e : e.metadata["path"] # id)

\* Delete as a delete without ids: every entry goes
DeleteEverything(coll, id) == <<>>

\* collection.delete(ids=[id]): an id that is not stored is ignored
Delete(coll, id) == SelectSeq(coll, LAMBDA e : e.id # id)

\* a where filter {key: value}: the entry's metadata has that value at key
Matches(e, where) ==
    where = None \/ (where[1].key \in DOMAIN e.metadata /\ e.metadata[where[1].key] = where[1].val)

\* the entries sorted by ascending distance, ties in the store's order
RECURSIVE SortByDistance(_, _)
SortByDistance(coll, q) ==
    IF coll = <<>> THEN <<>>
    ELSE LET best == CHOOSE i \in 1..Len(coll) :
                        \A k \in 1..Len(coll) :
                            \/ CosineDistance(coll[i].embedding, q) < CosineDistance(coll[k].embedding, q)
                            \/ /\ CosineDistance(coll[i].embedding, q) = CosineDistance(coll[k].embedding, q)
                               /\ i <= k
             rest == [k \in 1..(Len(coll) - 1) |-> IF k < best THEN coll[k] ELSE coll[k + 1]]
         IN  <<coll[best]>> \o SortByDistance(rest, q)

\* collection.query(query_embeddings=[q], n_results=n, where=where,
\* include=[documents, metadatas, distances]): the n nearest matching entries
Query(coll, q, n, where) ==
    LET hits   == SelectSeq(coll, LAMBDA e : Matches(e, where))
        sorted == SortByDistance(hits, q)
        top    == IF Len(sorted) <= n THEN sorted ELSE SubSeq(sorted, 1, n)
    IN  [i \in 1..Len(top) |->
            [id |-> top[i].id, document |-> top[i].document,
             metadata |-> top[i].metadata,
             distance |-> CosineDistance(top[i].embedding, q)]]


(***************************************************************************)
(* The service (main.py).  state is the AppState singleton, entries the    *)
(* persisted collection, now the clock, sweep the position of a running    *)
(* index_entire_vault, request and response the last call and its result,  *)
(* prev how the last call relates to the one before it.  live is history:  *)
(* for every path indexed and not deleted or reset since, the content,     *)
(* caller metadata and clock value of the latest call that indexed it.     *)
(***************************************************************************)
VARIABLES state, entries, now, sweep, request, response, prev, live

vars == <<state, entries, now, sweep, request, response, prev, live>>

NoCalls == [p \in {} |-> <<>>]

Put(calls, path, call) ==
    [p \in DOMAIN calls \cup {path} |-> IF p = path THEN call ELSE calls[p]]

Remove(calls, path) == [p \in DOMAIN calls \ {path} |-> calls[p]]

\* AppState.__init__ (main.py lines 101-108): every field None
Uninitialized ==
    [embedder |-> FALSE, chroma_client |-> FALSE, collection |-> FALSE,
     indexer |-> FALSE, last_indexed |-> None]

SweepIdle == [pc |-> "idle", files |-> <<>>, total |-> 0, indexed |-> 0, errors |-> <<>>]

NoRequest  == [op |-> "none"]
NoResponse == [op |-> "none", status |-> 0]

\* VAULT_PATH (main.py line 30), here "/v"
VaultPath == <<"/", "v">>

\* the absolute path of a vault file, and md_file.relative_to(vault_path)
VaultFile(rel)  == VaultPath \o <<"/">> \o rel
RelativeTo(abs) == From(abs, Len(VaultPath) + 2)

\* datetime.isoformat() of the clock value t: "T0", "T1", ...
Digits == <<"0", "1", "2", "3", "4", "5", "6", "7", "8", "9">>
IsoFormat(t) == <<"T", Digits[t + 1]>>

Uncategorized == <<"u","n","c","a","t","e","g","o","r","i","z","e","d">>

\* request.metadata as a dict: the last value given for each key
ExtraDict(extra) ==
    [k \in {extra[i].key : i \in 1..Len(extra)} |->
        StrVal(extra[CHOOSE i \in 1..Len(extra) :
                        extra[i].key = k /\ \A j \in 1..Len(extra) : extra[j].key = k => j <= i].val)]

\* the metadata dict of index_document (main.py lines 225-235); with
\* extra = NoExtra it is the dict of index_entire_vault (lines 338-346)
BuildMetadata(path, doc, t, extra) ==
    LET base == [k \in {"path", "title", "category", "indexed_at"} |->
                    CASE k = "path"       -> StrVal(path)
                      [] k = "title"      -> doc.title
                      [] k = "category"   -> IF Truthy(doc.category) THEN doc.category
                                             ELSE StrVal(Uncategorized)
                      [] k = "indexed_at" -> StrVal(IsoFormat(t))]
        all  == ExtraDict(extra) @@ base
    IN  IF Truthy(doc.tags)
        THEN ("tags" :> StrVal(Join(doc.tags.items, <<",">>))) @@ all
        ELSE all

\* ChromaDB accepts only scalar metadata values: a list or None is a ValueError
ValidMetadata(m) == \A k \in DOMAIN m : m[k].t = "str"

StoredMetadata(m) == [k \in DOMAIN m |-> m[k].s]

\* parse_markdown on the texts and paths of the model, computed once
ParsedDocuments ==
    [c \in RawDocs |-> [p \in Paths |-> parse_markdown(c, p)] @@ <<>>] @@ <<>>

\* collection.upsert of the parsed document (main.py lines 238-243): a
\* metadata value that is no string, or an injected fault, raises
UpsertDocument(coll, doc_id, doc, metadata, fault) ==
    IF ~ValidMetadata(metadata)
    THEN [ok |-> FALSE, entries |-> coll, error |-> "ValueError", doc_id |-> doc_id, title |-> <<>>]
    ELSE IF fault = "upsert"
    THEN [ok |-> FALSE, entries |-> coll, error |-> "UpsertError", doc_id |-> doc_id, title |-> <<>>]
    ELSE [ok |-> TRUE,
          entries |-> Upsert(coll, doc_id, encode(doc.content),
                             StoredMetadata(metadata), doc.content),
          error |-> "", doc_id |-> doc_id, title |-> doc.title.s]

\* the steps after parse_markdown: hash the path, embed, build the metadata
IndexParsed(coll, path, doc, extra, fault, t) ==
    IF doc.raised
    THEN [ok |-> FALSE, entries |-> coll, error |-> "AttributeError",
          doc_id |-> Md5Hex(path), title |-> <<>>]
    ELSE IF fault = "encode"
    THEN [ok |-> FALSE, entries |-> coll, error |-> "EncodeError",
          doc_id |-> Md5Hex(path), title |-> <<>>]
    ELSE IF fault = "metadata"
    THEN [ok |-> FALSE, entries |-> coll, error |-> "TypeError",
          doc_id |-> Md5Hex(path), title |-> <<>>]
    ELSE UpsertDocument(coll, Md5Hex(path), doc, BuildMetadata(path, doc, t, extra), fault)

\* the try block shared by index_document (main.py lines 215-243) and the
\* loop body of index_entire_vault (lines 334-353): parse, hash the path,
\* embed, build the metadata, upsert.  fault is the step an injected
\* failure hits ("none", "encode", "metadata", "upsert"); the result is the collection
\* afterwards with ok, or the unchanged collection with the error raised.
IndexOne(coll, path, content, extra, fault, t) ==
    IndexParsed(coll, path, ParsedDocuments[content][path], extra, fault, t)

Faults == {"none", "encode", "metadata", "upsert"}

\* how a call relates to the call before it: "after_reset" when that was a
\* successful reset; "repeat" when that was a successful index_document of
\* the same path and content; "dropped" when that was a successful
\* index_document of the same path with caller metadata and this one has
\* none; "redelete" when that was a successful delete_document of the path
\* this call deletes
Relation(req, resp, nextReq) ==
    LET reindex == /\ resp.op = "index" /\ resp.status = 200 /\ nextReq.op = "index"
                   /\ nextReq.path = req.path
    IN  (IF resp.op = "reset" /\ resp.status = 200 THEN {"after_reset"} ELSE {})
        \cup (IF /\ resp.op = "delete" /\ resp.status = 200 /\ nextReq.op = "delete"
                 /\ nextReq.path = req.path
              THEN {"redelete"} ELSE {})
        \cup (IF reindex /\ nextReq.content = req.content THEN {"repeat"} ELSE {})
        \cup (IF reindex /\ req.metadata # NoExtra /\ nextReq.metadata = NoExtra
              THEN {"dropped"} ELSE {})

Init ==
    /\ state = Uninitialized
    /\ entries = <<>>
    /\ now = 0
    /\ sweep = SweepIdle
    /\ request = NoRequest
    /\ response = NoResponse
    /\ prev = {}
    /\ live = NoCalls

\* time passes: datetime.utcnow() never goes back
Tick ==
    /\ now < MaxClock
    /\ now' = now + 1
    /\ UNCHANGED <<state, entries, sweep, request, response, prev, live>>

\* lifespan startup (main.py lines 118-155): load the model, open the
\* persistent client, get or create the collection, build the indexer
Startup ==
    /\ state = Uninitialized
    /\ state' = [embedder |-> TRUE, chroma_client |-> TRUE, collection |-> TRUE,
                 indexer |-> TRUE, last_indexed |-> None]
    /\ request' = NoRequest
    /\ response' = NoResponse
    /\ prev' = {}
    /\ UNCHANGED <<entries, now, sweep, live>>

\* the process dies and is started again: the AppState and a running sweep
\* are lost, the persisted collection is kept
Crash ==
    /\ state # Uninitialized
    /\ state' = Uninitialized
    /\ sweep' = SweepIdle
    /\ request' = NoRequest
    /\ response' = NoResponse
    /\ prev' = {}
    /\ UNCHANGED <<entries, now, live>>

\* IndexOutcome with last_indexed set before the try block, so that a
\* failed call moves it too
IndexOutcomeStampsFailure(path, call, r) ==
    IF ~r.ok
    THEN /\ response' = [op |-> "index", status |-> 500, detail |-> r.error]
         /\ state' = [state EXCEPT !.last_indexed = Some(IsoFormat(now))]
         /\ UNCHANGED <<entries, live>>
    ELSE /\ entries' = r.entries
         /\ live' = Put(live, path, call)
         /\ state' = [state EXCEPT !.last_indexed = Some(IsoFormat(now))]
         /\ response' = [op |-> "index", status |-> 200, success |-> TRUE,
                         path |-> path, doc_id |-> r.doc_id, title |-> r.title]

\* the outcome of index_document once the try block has run with result r
IndexOutcome(path, call, r) ==
    IF ~r.ok
    THEN /\ response' = [op |-> "index", status |-> 500, detail |-> r.error]
         /\ UNCHANGED <<state, entries, live>>
    ELSE /\ entries' = r.entries
         /\ live' = Put(live, path, call)
         /\ state' = [state EXCEPT !.last_indexed = Some(IsoFormat(now))]
         /\ response' = [op |-> "index", status |-> 200, success |-> TRUE,
                         path |-> path, doc_id |-> r.doc_id, title |-> r.title]

\* a handler is entered with the request req: the event loop is free
Enter(req) ==
    /\ sweep.pc = "idle"
    /\ request' = req
    /\ prev' = Relation(request, response, req)

\* POST /index (main.py lines 208-255); both utcnow() calls of the handler
\* read the clock value now
index_document(path, content, extra, fault) ==
    /\ Enter([op |-> "index", path |-> path, content |-> content, metadata |-> extra])
    /\ UNCHANGED <<now, sweep>>
    /\ IF ~state.collection \/ ~state.indexer
       THEN /\ response' = [op |-> "index", status |-> 503]
            /\ UNCHANGED <<state, entries, live>>
       ELSE IndexOutcome(path, [content |-> content, extra |-> extra, t |-> now],
                         IndexOne(entries, path, content, extra, fault, now))

\* dict.get(key, default) on a stored metadata dict
MetaGet(m, key, default) == IF key \in DOMAIN m THEN m[key] ELSE default

\* the where filter of search_vault (main.py lines 269-271): a category
\* filter that is None or empty gives no filter
WhereFilter(filter_category) ==
    IF filter_category # None /\ filter_category[1] # <<>>
    THEN Some([key |-> "category", val |-> filter_category[1]])
    ELSE None

\* FormatResults without the conversion of line 291: the score is the distance
FormatResultsRawDistance(results, include_content) ==
    [i \in 1..Len(results) |->
        [path     |-> MetaGet(results[i].metadata, "path", <<>>),
         title    |-> MetaGet(results[i].metadata, "title",
                              <<"U","n","t","i","t","l","e","d">>),
         content  |-> IF include_content THEN Some(results[i].document) ELSE None,
         category |-> IF "category" \in DOMAIN results[i].metadata
                      THEN Some(results[i].metadata["category"]) ELSE None,
         score    |-> results[i].distance,
         metadata |-> results[i].metadata]]

\* FormatResults that ignores include_content and always returns the text
FormatResultsAlwaysContent(results, include_content) ==
    [i \in 1..Len(results) |->
        [path     |-> MetaGet(results[i].metadata, "path", <<>>),
         title    |-> MetaGet(results[i].metadata, "title",
                              <<"U","n","t","i","t","l","e","d">>),
         content  |-> Some(results[i].document),
         category |-> IF "category" \in DOMAIN results[i].metadata
                      THEN Some(results[i].metadata["category"]) ELSE None,
         score    |-> One - results[i].distance,
         metadata |-> results[i].metadata]]

\* the loop that formats the query results (main.py lines 282-300)
FormatResults(results, include_content) ==
    [i \in 1..Len(results) |->
            [path     |-> MetaGet(results[i].metadata, "path", <<>>),
             title    |-> MetaGet(results[i].metadata, "title",
                                  <<"U","n","t","i","t","l","e","d">>),
             content  |-> IF include_content THEN Some(results[i].document) ELSE None,
             category |-> IF "category" \in DOMAIN results[i].metadata
                          THEN Some(results[i].metadata["category"]) ELSE None,
             score    |-> One - results[i].distance,
             metadata |-> results[i].metadata]]

\* the SearchResult list of search_vault (main.py lines 265-300)
SearchResults(coll, query, top_k, filter_category, include_content) ==
    FormatResults(Query(coll, encode(query), top_k, WhereFilter(filter_category)),
                  include_content)


\* POST /search (main.py lines 258-309)
search_vault(query, top_k, filter_category, include_content) ==
    /\ Enter([op |-> "search", query |-> query, top_k |-> top_k,
              filter_category |-> filter_category,
              include_content |-> include_content])
    /\ UNCHANGED <<state, entries, now, sweep, live>>
    /\ IF ~state.collection \/ ~state.embedder
       THEN response' = [op |-> "search", status |-> 503]
       ELSE response' =
                [op |-> "search", status |-> 200,
                 results |-> SearchResults(entries, query, top_k,
                                           filter_category, include_content),
                 query |-> query,
                 total_indexed |-> Count(entries)]

\* what rglob("*.md") can list: the files of any part of the vault's
\* paths, in any order
FileLists ==
    {fs \in UNION {[1..n -> {VaultFile(p) : p \in Paths}] : n \in 0..Cardinality(Paths)} :
        \A i, j \in 1..Len(fs) : i # j => fs[i] # fs[j]}

\* POST /index-vault up to the loop (main.py lines 312-326): the handler
\* has no await, so from here to its return no other request is served
index_entire_vault(exists, md_files) ==
    /\ Enter([op |-> "sweep", md_files |-> md_files])
    /\ UNCHANGED <<state, entries, now, live>>
    /\ IF ~state.collection \/ ~state.indexer
       THEN /\ response' = [op |-> "sweep", status |-> 503]
            /\ UNCHANGED sweep
       ELSE IF ~exists
       THEN /\ response' = [op |-> "sweep", status |-> 404]
            /\ UNCHANGED sweep
       ELSE /\ response' = [op |-> "sweep", status |-> 0]
            /\ sweep' = [pc |-> "running", files |-> md_files,
                         total |-> Len(md_files), indexed |-> 0, errors |-> <<>>]

\* what reading a vault file gives: its text, or an error
FileReads == [ok : {TRUE}, text : RawDocs] \cup {[ok |-> FALSE, text |-> <<>>]}

\* FileOutcome with the except clause outside the loop: the first failing
\* file ends the sweep
FileOutcomeAborts(md_file, call, r) ==
    /\ entries' = r.entries
    /\ live' = IF r.ok THEN Put(live, RelativeTo(md_file), call) ELSE live
    /\ sweep' = [sweep EXCEPT
                    !.files   = IF r.ok THEN Tail(@) ELSE <<>>,
                    !.indexed = IF r.ok THEN @ + 1 ELSE @,
                    !.errors  = IF r.ok THEN @
                                ELSE Append(@, [file |-> md_file, error |-> r.error])]

\* the end of one iteration of the loop: the file is counted as indexed,
\* or its error is recorded (main.py lines 355-358)
FileOutcome(md_file, call, r) ==
    /\ entries' = r.entries
    /\ live' = IF r.ok THEN Put(live, RelativeTo(md_file), call) ELSE live
    /\ sweep' = [sweep EXCEPT
                    !.files   = Tail(@),
                    !.indexed = IF r.ok THEN @ + 1 ELSE @,
                    !.errors  = IF r.ok THEN @
                                ELSE Append(@, [file |-> md_file, error |-> r.error])]

\* one iteration of the loop of index_entire_vault (main.py lines 328-358):
\* read is what read_text gives for the file
SweepFile(read, fault) ==
    /\ sweep.pc = "running"
    /\ sweep.files # <<>>
    /\ FileOutcome(Head(sweep.files),
                   [content |-> read.text, extra |-> NoExtra, t |-> now],
                   IF read.ok
                   THEN IndexOne(entries, RelativeTo(Head(sweep.files)), read.text,
                                 NoExtra, fault, now)
                   ELSE [ok |-> FALSE, entries |-> entries, error |-> "OSError",
                         doc_id |-> <<>>, title |-> <<>>])
    /\ UNCHANGED <<state, now, request, response, prev>>

\* the end of index_entire_vault (main.py lines 360-367)
SweepReturn ==
    /\ sweep.pc = "running"
    /\ sweep.files = <<>>
    /\ state' = [state EXCEPT !.last_indexed = Some(IsoFormat(now))]
    /\ response' = [op |-> "sweep", status |-> 200, success |-> TRUE,
                    indexed |-> sweep.indexed, total_files |-> sweep.total,
                    errors |-> IF sweep.errors # <<>> THEN Some(sweep.errors) ELSE None]
    /\ sweep' = SweepIdle
    /\ UNCHANGED <<entries, now, request, prev, live>>

\* DELETE /document/{path} (main.py lines 370-382)
delete_document(path) ==
    /\ Enter([op |-> "delete", path |-> path])
    /\ UNCHANGED <<state, now, sweep>>
    /\ IF ~state.collection
       THEN /\ response' = [op |-> "delete", status |-> 503]
            /\ UNCHANGED <<entries, live>>
       ELSE /\ entries' = Delete(entries, Md5Hex(path))
            /\ live' = Remove(live, path)
            /\ response' = [op |-> "delete", status |-> 200, success |-> TRUE,
                            path |-> path, doc_id |-> Md5Hex(path)]

\* Categories that marks the categories present, without counting
CategoriesPresent(coll) ==
    [c \in {MetaGet(coll[i].metadata, "category", Uncategorized) : i \in 1..Len(coll)} |-> 1]

\* the categories dict of get_stats (main.py lines 395-398): the number of
\* entries per stored category
Categories(coll) ==
    [c \in {MetaGet(coll[i].metadata, "category", Uncategorized) : i \in 1..Len(coll)} |->
        Cardinality({i \in 1..Len(coll) :
                        MetaGet(coll[i].metadata, "category", Uncategorized) = c})]

\* get_stats without the guard of lines 388-389: collection.get on None
\* raises inside the try block
GetStatsUnguarded ==
    /\ Enter([op |-> "stats"])
    /\ UNCHANGED <<state, entries, now, sweep, live>>
    /\ IF ~state.collection
       THEN response' = [op |-> "stats", status |-> 500, detail |-> "AttributeError"]
       ELSE response' = [op |-> "stats", status |-> 200,
                         total_documents |-> Count(entries),
                         total_chunks |-> Count(entries),
                         categories |-> Categories(entries),
                         last_indexed |-> state.last_indexed]

\* GET /stats (main.py lines 385-409)
get_stats ==
    /\ Enter([op |-> "stats"])
    /\ UNCHANGED <<state, entries, now, sweep, live>>
    /\ IF ~state.collection
       THEN response' = [op |-> "stats", status |-> 503]
       ELSE response' = [op |-> "stats", status |-> 200,
                         total_documents |-> Count(entries),
                         total_chunks |-> Count(entries),
                         categories |-> Categories(entries),
                         last_indexed |-> state.last_indexed]

\* reset_index that gets the collection again instead of deleting it
ResetKeepsEntries ==
    /\ Enter([op |-> "reset"])
    /\ UNCHANGED <<now, sweep, entries, live>>
    /\ IF ~state.chroma_client
       THEN /\ response' = [op |-> "reset", status |-> 503]
            /\ UNCHANGED state
       ELSE /\ state' = [state EXCEPT !.collection = TRUE, !.last_indexed = None]
            /\ response' = [op |-> "reset", status |-> 200, success |-> TRUE]

\* POST /reset (main.py lines 423-440): delete the collection and create
\* it again, empty
reset_index ==
    /\ Enter([op |-> "reset"])
    /\ UNCHANGED <<now, sweep>>
    /\ IF ~state.chroma_client
       THEN /\ response' = [op |-> "reset", status |-> 503]
            /\ UNCHANGED <<state, entries, live>>
       ELSE /\ entries' = <<>>
            /\ live' = NoCalls
            /\ state' = [state EXCEPT !.collection = TRUE, !.last_indexed = None]
            /\ response' = [op |-> "reset", status |-> 200, success |-> TRUE]

Next ==
    \/ Tick
    \/ Startup
    \/ Crash
    \/ \E path \in Paths, content \in RawDocs, extra \in Extras, fault \in Faults :
        index_document(path, content, extra, fault)
    \/ \E query \in Queries, top_k \in TopKs, f \in FilterCategories, inc \in BOOLEAN :
        search_vault(query, top_k, f, inc)
    \/ \E exists \in BOOLEAN, md_files \in FileLists : index_entire_vault(exists, md_files)
    \/ \E read \in FileReads, fault \in Faults : SweepFile(read, fault)
    \/ SweepReturn
    \/ \E path \in Paths : delete_document(path)
    \/ get_stats
    \/ reset_index

Spec == Init /\ [][Next]_vars


(***************************************************************************)
(* parse_markdown on its own: request holds one call's arguments, response *)
(* what the call gives.  The texts are a frontmatter block followed by a   *)
(* body, each from a small set.                                            *)
(***************************************************************************)

\* "---\n" text "\n---\n"
Block(text) == DASHES \o NL \o text \o NL \o DASHES \o NL

\* no frontmatter; "title: T"; "category: w" and "tags: p, q"; a flow
\* sequence of tags with a quoted item, tags: [" p", q]; the scalar "z";
\* the list "- z"; an empty block; "[a", which is no YAML
FmBlocks ==
    {<<>>,
     Block(KeyTitle \o <<":", " ", "T">>),
     Block(KeyCategory \o <<":", " ", "w">> \o NL \o KeyTags \o <<":", " ", "p", ",", " ", "q">>),
     Block(KeyTags \o <<":", " ", "[", "\"", " ", "p", "\"", ",", " ", "q", "]">>),
     Block(<<"z">>),
     Block(<<"-", " ", "z">>),
     Block(<<>>),
     Block(<<"[", "a">>)}

\* "x"; "# A\nx"; "#\nB"; " x\n"; "y\n#  A "
Bodies ==
    {<<"x">>,
     <<"#", " ", "A", "\n", "x">>,
     <<"#", "\n", "B">>,
     <<" ", "x", "\n">>,
     <<"y", "\n", "#", " ", " ", "A", " ">>}

\* "d/e-f_g.md"
PathDeep == <<"d", "/", "e", "-", "f", "_", "g", ".", "m", "d">>

ParsePaths == {PathNA, PathC, PathDeep}

ParseInit ==
    /\ state = Uninitialized
    /\ entries = <<>>
    /\ now = 0
    /\ sweep = SweepIdle
    /\ request \in {[op |-> "parse", content |-> fm \o body, path |-> path] :
                        fm \in FmBlocks, body \in Bodies, path \in ParsePaths}
    /\ response = NoResponse
    /\ prev = {}
    /\ live = NoCalls

\* the call state.indexer.parse_markdown(content, path)
ParseCall ==
    /\ request.op = "parse"
    /\ response = NoResponse
    /\ response' = [op |-> "parse", status |-> 0,
                    doc |-> parse_markdown(request.content, request.path)]
    /\ UNCHANGED <<state, entries, now, sweep, request, prev, live>>

ParseNext == ParseCall

ParseSpec == ParseInit /\ [][ParseNext]_vars


(***************************************************************************)
(* VaultIndexer.chunk_document (indexer.py lines 114-170) on its own:      *)
(* request holds a document's content and the indexer's chunk_size,        *)
(* response the chunks returned.                                           *)
(***************************************************************************)

IsStop(c) == c \in {".", "!", "?"}

\* re.split(r'(?<=[.!?])\s+', text): cut at every run of whitespace that
\* follows ".", "!" or "?"; the run is dropped
RECURSIVE ReSplit(_)
ReSplit(text) ==
    LET cuts == {i \in 2..Len(text) : IsSpace(text[i]) /\ IsStop(text[i - 1])}
        i    == CHOOSE c \in cuts : \A k \in cuts : c <= k
    IN  IF cuts = {} THEN <<text>>
        ELSE <<UpTo(text, i - 1)>> \o ReSplit(From(text, i + SpaceRun(text, i)))

\* [s.strip() for s in sentences if s.strip()]
StripAll(parts) ==
    SelectSeq([i \in 1..Len(parts) |-> Strip(parts[i])], LAMBDA x : x # <<>>)

\* _split_sentences (indexer.py lines 166-170)
split_sentences(text) == StripAll(ReSplit(text))

\* the short-document test that sends a document of exactly chunk_size
\* characters through the paragraph loop
IsShortStrict(content, chunk_size) == Len(content) < chunk_size

\* the short-document test (line 127)
IsShort(content, chunk_size) == Len(content) <= chunk_size

\* the overflow test with the separator not counted
ExceedsWithoutSeparator(current_chunk, unit, sep, chunk_size) ==
    Len(current_chunk) + Len(unit) > chunk_size

\* the overflow tests (lines 141 and 149): the buffer, the next unit and
\* sep characters of separator are more than chunk_size
Exceeds(current_chunk, unit, sep, chunk_size) ==
    Len(current_chunk) + Len(unit) + sep > chunk_size

\* if current_chunk: chunks.append(current_chunk.strip()) (lines 142-143
\* and 150-151)
Emit(chunks, current_chunk) ==
    IF current_chunk # <<>> THEN Append(chunks, Strip(current_chunk)) ELSE chunks

\* the end of chunk_document with the remaining buffer forgotten
FlushDropsBuffer(chunks, current_chunk) == chunks

\* the end of chunk_document (lines 160-164): the remaining buffer is added
Flush(chunks, current_chunk) ==
    IF current_chunk # <<>> THEN Append(chunks, Strip(current_chunk)) ELSE chunks

\* the sentence loop (lines 148-154), from the buffer current_chunk
RECURSIVE AddSentences(_, _, _, _)
AddSentences(chunks, current_chunk, sentences, chunk_size) ==
    IF sentences = <<>> THEN [chunks |-> chunks, current_chunk |-> current_chunk]
    ELSE IF Exceeds(current_chunk, Head(sentences), 1, chunk_size)
    THEN AddSentences(Emit(chunks, current_chunk), Head(sentences),
                      Tail(sentences), chunk_size)
    ELSE AddSentences(chunks, Strip(current_chunk \o <<" ">> \o Head(sentences)),
                      Tail(sentences), chunk_size)

\* the paragraph loop goes on after the sentences of a long paragraph
RECURSIVE AddParagraphs(_, _, _, _)
AddParagraphsAfter(r, paragraphs, chunk_size) ==
    AddParagraphs(r.chunks, r.current_chunk, paragraphs, chunk_size)

\* the paragraph loop (lines 135-158); a paragraph that does not fit ends
\* the buffer, and when it is itself too long its sentences are added to
\* the buffer as it stands (line 142 emits it, no line clears it)
AddParagraphs(chunks, current_chunk, paragraphs, chunk_size) ==
    IF paragraphs = <<>> THEN [chunks |-> chunks, current_chunk |-> current_chunk]
    ELSE IF Strip(Head(paragraphs)) = <<>>
    THEN AddParagraphs(chunks, current_chunk, Tail(paragraphs), chunk_size)
    ELSE IF ~Exceeds(current_chunk, Strip(Head(paragraphs)), 2, chunk_size)
    THEN AddParagraphs(chunks,
                       Strip(current_chunk \o <<"\n", "\n">> \o Strip(Head(paragraphs))),
                       Tail(paragraphs), chunk_size)
    ELSE IF Len(Strip(Head(paragraphs))) > chunk_size
    THEN AddParagraphsAfter(AddSentences(Emit(chunks, current_chunk), current_chunk,
                                         split_sentences(Strip(Head(paragraphs))),
                                         chunk_size),
                            Tail(paragraphs), chunk_size)
    ELSE AddParagraphs(Emit(chunks, current_chunk), Strip(Head(paragraphs)),
                       Tail(paragraphs), chunk_size)

FlushLoop(r) == Flush(r.chunks, r.current_chunk)

\* chunk_document(doc) for doc.content = content (lines 114-164)
chunk_document(content, chunk_size) ==
    IF IsShort(content, chunk_size) THEN <<content>>
    ELSE FlushLoop(AddParagraphs(<<>>, <<>>, Split(content, <<"\n", "\n">>), chunk_size))

\* the characters of the documents, their largest length, and the chunk sizes
ContentChars == {"a", ".", " ", "\n"}

MaxContentLen == 7

Contents == UNION {[1..n -> ContentChars] : n \in 0..MaxContentLen}

ChunkSizes == {2, 4}

ChunkInit ==
    /\ state = Uninitialized
    /\ entries = <<>>
    /\ now = 0
    /\ sweep = SweepIdle
    /\ request \in {[op |-> "chunk", content |-> c, chunk_size |-> n] :
                        c \in Contents, n \in ChunkSizes}
    /\ response = NoResponse
    /\ prev = {}
    /\ live = NoCalls

\* the call indexer.chunk_document(doc)
ChunkCall ==
    /\ request.op = "chunk"
    /\ response = NoResponse
    /\ response' = [op |-> "chunk", status |-> 0,
                    chunks |-> chunk_document(request.content, request.chunk_size)]
    /\ UNCHANGED <<state, entries, now, sweep, request, prev, live>>

ChunkNext == ChunkCall

ChunkSpec == ChunkInit /\ [][ChunkNext]_vars


(***************************************************************************)
(* EmbeddingModel.similarity (embeddings.py lines 84-107) on its own:      *)
(* request holds the two arrays, response what the call gives.  An array   *)
(* is a sequence of rows of integers; a norm is kept as its square, which  *)
(* is 0 exactly when the norm is; the quotient is kept as the pair of the  *)
(* dot product and the squared product of the norms.                       *)
(***************************************************************************)

\* ndarray.flatten(): the rows one after the other
RECURSIVE Flatten(_)
Flatten(a) == IF a = <<>> THEN <<>> ELSE Head(a) \o Flatten(Tail(a))

\* np.dot of two 1-D arrays of the same length
RECURSIVE DotProduct(_, _)
DotProduct(e1, e2) ==
    IF e1 = <<>> THEN 0 ELSE Head(e1) * Head(e2) + DotProduct(Tail(e1), Tail(e2))

\* np.linalg.norm(e), squared
NormSq(e) == DotProduct(e, e)

\* x / y on floats: with y = 0 numpy gives nan or inf and a RuntimeWarning
Divide(x, ysq) ==
    IF ysq = 0 THEN [kind |-> "nan", num |-> 0, densq |-> 0, divisor |-> Some(ysq)]
    ELSE [kind |-> "float", num |-> x, densq |-> ysq, divisor |-> Some(ysq)]

\* the float 0.0, returned without a division
Zero == [kind |-> "float", num |-> 0, densq |-> 1, divisor |-> None]

\* similarity without the test of lines 104-105
SimilarityUnguarded(embedding1, embedding2) ==
    Divide(DotProduct(Flatten(embedding1), Flatten(embedding2)),
           NormSq(Flatten(embedding1)) * NormSq(Flatten(embedding2)))

\* similarity(embedding1, embedding2) (lines 84-107)
similarity(embedding1, embedding2) ==
    IF NormSq(Flatten(embedding1)) = 0 \/ NormSq(Flatten(embedding2)) = 0
    THEN Zero
    ELSE Divide(DotProduct(Flatten(embedding1), Flatten(embedding2)),
                NormSq(Flatten(embedding1)) * NormSq(Flatten(embedding2)))

\* the largest absolute value of a component
MaxCoord == 1

\* the shapes of the arrays: (1, 1), (1, 2), (2, 1)
Shapes == {<<1, 1>>, <<1, 2>>, <<2, 1>>}

Arrays == UNION {[1..sh[1] -> [1..sh[2] -> (0 - MaxCoord)..MaxCoord]] : sh \in Shapes}

SimInit ==
    /\ state = Uninitialized
    /\ entries = <<>>
    /\ now = 0
    /\ sweep = SweepIdle
    /\ request \in {[op |-> "similarity", embedding1 |-> pair[1], embedding2 |-> pair[2]] :
                        pair \in {ab \in Arrays \X Arrays :
                                    Len(Flatten(ab[1])) = Len(Flatten(ab[2]))}}
    /\ response = NoResponse
    /\ prev = {}
    /\ live = NoCalls

\* the call embedder.similarity(embedding1, embedding2)
SimCall ==
    /\ request.op = "similarity"
    /\ response = NoResponse
    /\ response' = [op |-> "similarity", status |-> 0,
                    result |-> similarity(request.embedding1, request.embedding2)]
    /\ UNCHANGED <<state, entries, now, sweep, request, prev, live>>

SimNext == SimCall

SimSpec == SimInit /\ [][SimNext]_vars


(***************************************************************************)
(* The browser service (src/browser-use-service/main.py).  Its handlers    *)
(* are coroutines on one event loop: a handler runs alone from one await   *)
(* that suspends to the next, and any number of requests can be between    *)
(* two awaits.  Here state is the BrowserState singleton, entries the      *)
(* Browser instances constructed so far (instance b is entries[b], "open"  *)
(* from its construction until a close of it takes effect), request the    *)
(* bag of the frames of the requests in flight, response the last response *)
(* sent and prev what happened inside the call that sent it.  now, sweep   *)
(* and live are not used.                                                  *)
(***************************************************************************)
MaxRequests == 2

MaxBrowsers == 3

\* ConnectRequest.profile_name (main.py line 78)
Profiles == {"Default", "Work"}

\* the three assignments of connect's except clause and of disconnect's
\* finally clause (main.py lines 236-238 and 250-252)
Cleared(s) == [s EXCEPT !.browser = None, !.context = None, !.connected = FALSE]

\* a guard that looks at the browser only
EnsureConnectedBrowserOnly(s) == s.browser = None

\* BrowserState.ensure_connected (main.py lines 191-193): TRUE when it
\* raises HTTPException 400
ensure_connected(s) == ~s.connected \/ s.browser = None

\* BrowserState.get_page (main.py lines 254-262): the error it raises, or
\* "page"; without a context pages is [] and self.context.new_page() is an
\* attribute access on None
get_page(s) ==
    IF ensure_connected(s) THEN "400: Browser not connected"
    ELSE IF s.context = None THEN "AttributeError"
    ELSE "page"

\* the requests in flight without the one that is running
Others(frame) == request (-) SetToBag({frame})

Failure(op, error) == [op |-> op, status |-> 200, success |-> FALSE, error |-> error]

Success(op) == [op |-> op, status |-> 200, success |-> TRUE, error |-> "None"]

BrowserInit ==
    /\ state = [browser |-> None, context |-> None, connected |-> FALSE,
                profile_name |-> "Default"]
    /\ entries = <<>>
    /\ request = EmptyBag
    /\ response = NoResponse
    /\ prev = {}
    /\ now = 0
    /\ sweep = SweepIdle
    /\ live = NoCalls

\* POST /connect up to its first await (main.py lines 325-327, 195-227)
connect(profile_name, fault) ==
    /\ BagCardinality(request) < MaxRequests
    /\ UNCHANGED <<now, sweep, live>>
    /\ IF fault = "import"
       THEN /\ response' = [op |-> "connect", status |-> 500,
                            detail |-> "browser_use library is not installed"]
            /\ prev' = {}
            /\ UNCHANGED <<state, entries, request>>
       ELSE IF state.connected /\ state.browser # None
       THEN /\ response' = [op |-> "connect", status |-> 200, success |-> TRUE,
                            message |-> "Already connected",
                            profile |-> state.profile_name]
            /\ prev' = {}
            /\ UNCHANGED <<state, entries, request>>
       ELSE IF fault = "construct"
       THEN /\ state' = Cleared(state)
            /\ response' = [op |-> "connect", status |-> 500,
                            detail |-> "Failed to connect to browser"]
            /\ prev' = {}
            /\ UNCHANGED <<entries, request>>
       ELSE /\ Len(entries) < MaxBrowsers
            /\ entries' = Append(entries, "open")
            /\ state' = [state EXCEPT !.browser = Some(Len(entries) + 1)]
            /\ request' = request (+) SetToBag({
                               [op |-> "connect", pc |-> "new_context",
                                browser |-> Len(entries) + 1,
                                profile_name |-> profile_name]})
            /\ UNCHANGED <<response, prev>>

\* connect from the return of new_context to its response (main.py lines
\* 227-239); the context made by instance b is context b
connect_resume(frame, ok) ==
    /\ frame.op = "connect"
    /\ frame.pc = "new_context"
    /\ IF ok
       THEN /\ state' = [state EXCEPT !.context = Some(frame.browser),
                                      !.connected = TRUE,
                                      !.profile_name = frame.profile_name]
            /\ response' = [op |-> "connect", status |-> 200, success |-> TRUE,
                            message |-> "Connected to Chrome",
                            profile |-> frame.profile_name]
       ELSE /\ state' = Cleared(state)
            /\ response' = [op |-> "connect", status |-> 500,
                            detail |-> "Failed to connect to browser"]
    /\ request' = Others(frame)
    /\ prev' = {}
    /\ UNCHANGED <<entries, now, sweep, live>>

\* disconnect's finally clause and the return of the endpoint (main.py
\* lines 249-252, 333)
DisconnectReturn(others, flags) ==
    /\ state' = Cleared(state)
    /\ response' = [op |-> "disconnect", status |-> 200, success |-> TRUE,
                         message |-> "Disconnected"]
    /\ prev' = flags
    /\ request' = others

\* the call of self.browser.close() (main.py line 246): self.browser is read
\* when the call is made
CloseBrowser(others) ==
    IF state.browser = None
    THEN /\ DisconnectReturn(others, {"raised"})
         /\ UNCHANGED entries
    ELSE /\ request' = others (+) SetToBag({
                            [op |-> "disconnect", pc |-> "browser_close",
                             browser |-> state.browser[1]]})
         /\ UNCHANGED <<state, entries, response, prev>>

\* POST /disconnect up to its first await (main.py lines 330-333, 241-246)
disconnect ==
    /\ BagCardinality(request) < MaxRequests
    /\ UNCHANGED <<now, sweep, live>>
    /\ IF state.browser = None
       THEN /\ response' = [op |-> "disconnect", status |-> 200, success |-> TRUE,
                         message |-> "Disconnected"]
            /\ prev' = {"noop"}
            /\ UNCHANGED <<state, entries, request>>
       ELSE IF state.context # None
       THEN /\ request' = request (+) SetToBag({
                               [op |-> "disconnect", pc |-> "context_close",
                                context |-> state.context[1]]})
            /\ UNCHANGED <<state, entries, response, prev>>
       ELSE CloseBrowser(request)

\* disconnect from the return of self.context.close() (main.py lines
\* 245-252)
disconnect_context_closed(frame, ok) ==
    /\ frame.op = "disconnect"
    /\ frame.pc = "context_close"
    /\ UNCHANGED <<now, sweep, live>>
    /\ IF ok
       THEN CloseBrowser(Others(frame))
       ELSE /\ DisconnectReturn(Others(frame), {"raised"})
            /\ UNCHANGED entries

\* disconnect from the return of self.browser.close() (main.py lines
\* 246-252); a close that raises has closed the instance or has not
disconnect_browser_closed(frame, outcome) ==
    /\ frame.op = "disconnect"
    /\ frame.pc = "browser_close"
    /\ entries' = IF outcome = "raised" THEN entries
                  ELSE [entries EXCEPT ![frame.browser] = "closed"]
    /\ DisconnectReturn(Others(frame), IF outcome = "closed" THEN {} ELSE {"raised"})
    /\ UNCHANGED <<now, sweep, live>>

\* an endpoint that starts with state.get_page(): page.goto, page.title,
\* set_input_files, page.screenshot and the like succeed or raise, and
\* every exception becomes a body with success false
PageEndpoint(op, ok) ==
    /\ response' = IF get_page(state) # "page" THEN Failure(op, get_page(state))
                   ELSE IF ok THEN Success(op)
                   ELSE Failure(op, "PageError")
    /\ prev' = {}
    /\ UNCHANGED <<state, entries, request, now, sweep, live>>

\* an endpoint that imports Agent, calls ensure_connected and runs an
\* agent; the run succeeds or raises
AgentEndpoint(op, fault, ok) ==
    /\ response' = IF fault = "import" THEN Failure(op, "ImportError")
                   ELSE IF ensure_connected(state) THEN Failure(op, "400: Browser not connected")
                   ELSE IF ok THEN Success(op)
                   ELSE Failure(op, "AgentError")
    /\ prev' = {}
    /\ UNCHANGED <<state, entries, request, now, sweep, live>>

\* POST /navigate (main.py lines 336-345)
navigate(ok) == PageEndpoint("navigate", ok)

\* POST /click (main.py lines 348-373)
click(fault, ok) == AgentEndpoint("click", fault, ok)

\* POST /fill (main.py lines 376-403)
fill(fault, ok) == AgentEndpoint("fill", fault, ok)

\* POST /upload (main.py lines 406-447)
upload(ok) == PageEndpoint("upload", ok)

\* POST /screenshot (main.py lines 450-466)
screenshot(ok) == PageEndpoint("screenshot", ok)

\* POST /extract (main.py lines 469-492)
extract(fault, ok) == AgentEndpoint("extract", fault, ok)

\* POST /content (main.py lines 495-516)
get_content(ok) == PageEndpoint("content", ok)

\* POST /task (main.py lines 519-548)
run_task(fault, ok) == AgentEndpoint("task", fault, ok)

\* POST /action (main.py lines 551-576)
perform_action(fault, ok) == AgentEndpoint("action", fault, ok)

BrowserNext ==
    \/ \E p \in Profiles, fault \in {"none", "import", "construct"} : connect(p, fault)
    \/ \E frame \in BagToSet(request), ok \in BOOLEAN : connect_resume(frame, ok)
    \/ disconnect
    \/ \E frame \in BagToSet(request), ok \in BOOLEAN :
          disconnect_context_closed(frame, ok)
    \/ \E frame \in BagToSet(request), outcome \in {"closed", "raised", "closed_raised"} :
          disconnect_browser_closed(frame, outcome)
    \/ \E ok \in BOOLEAN : navigate(ok)
    \/ \E fault \in {"none", "import"}, ok \in BOOLEAN : click(fault, ok)
    \/ \E fault \in {"none", "import"}, ok \in BOOLEAN : fill(fault, ok)
    \/ \E ok \in BOOLEAN : upload(ok)
    \/ \E ok \in BOOLEAN : screenshot(ok)
    \/ \E fault \in {"none", "import"}, ok \in BOOLEAN : extract(fault, ok)
    \/ \E ok \in BOOLEAN : get_content(ok)
    \/ \E fault \in {"none", "import"}, ok \in BOOLEAN : run_task(fault, ok)
    \/ \E fault \in {"none", "import"}, ok \in BOOLEAN : perform_action(fault, ok)

BrowserSpec == BrowserInit /\ [][BrowserNext]_vars


(***************************************************************************)
(* Properties.                                                             *)
(***************************************************************************)

\* the entry a successful index call of path writes, call being its content,
\* caller metadata and clock value
ExpectedEntry(path, call) ==
    [id        |-> Md5Hex(path),
     embedding |-> encode(ParsedDocuments[call.content][path].content),
     document  |-> ParsedDocuments[call.content][path].content,
     metadata  |-> StoredMetadata(BuildMetadata(path, ParsedDocuments[call.content][path],
                                                call.t, call.extra))]

IndexSucceeded(req, resp) == req.op = "index" /\ resp.op = "index" /\ resp.status = 200

SearchSucceeded == request.op = "search" /\ response.op = "search" /\ response.status = 200

\* what the store returns for the last search request
StoreAnswer ==
    Query(entries, encode(request.query), request.top_k,
          WhereFilter(request.filter_category))

Min(a, b) == IF a <= b THEN a ELSE b

\* C1: index_document of the same (path, content) right after a successful
\* index_document of it returns the same doc_id and leaves the count as the
\* first call left it, with one entry of that id
C1_ReindexIsIdempotent ==
    [][(/\ IndexSucceeded(request, response)
        /\ IndexSucceeded(request', response')
        /\ request'.path = request.path
        /\ request'.content = request.content)
       => /\ response'.doc_id = response.doc_id
          /\ Count(entries') = Count(entries)
          /\ Cardinality({i \in 1..Len(entries') : entries'[i].id = response'.doc_id}) = 1]_vars

C1_Witness ==
    /\ "repeat" \in prev
    /\ IndexSucceeded(request, response)
    /\ Count(entries) = 2

\* C2: the collection holds exactly one entry per path that was indexed and
\* not deleted or reset since, and that entry holds the text of the path's
\* own latest index call
C2_OneEntryPerLivePath ==
    /\ Ids(entries) = {Md5Hex(p) : p \in DOMAIN live}
    /\ Count(entries) = Cardinality(DOMAIN live)
    /\ \A p \in DOMAIN live :
        \E i \in 1..Len(entries) :
            /\ entries[i].id = Md5Hex(p)
            /\ entries[i].document = ParsedDocuments[live[p].content][p].content

C2_Witness ==
    /\ request.op = "delete" /\ response.status = 200
    /\ request.path = PathNA
    /\ DOMAIN live = {PathC}
    /\ Count(entries) = 1

C4_FilterHoldsForEveryString ==
    (SearchSucceeded /\ request.filter_category # None)
    => \A i \in 1..Len(response.results) :
        response.results[i].category = Some(request.filter_category[1])

\* C5: a search with filter c and top_k = k returns min(k, number of entries
\* of category c) results, all of category c, and no entry of category c
\* that is left out is nearer than one that is returned
C5_TopKWithinFilteredSubset ==
    (SearchSucceeded /\ request.filter_category # None)
    => LET c      == request.filter_category[1]
           subset == SelectSeq(entries, LAMBDA e : e.metadata["category"] = c)
           q      == encode(request.query)
           shown  == {response.results[i].metadata : i \in 1..Len(response.results)}
       IN  /\ Len(response.results) = Min(request.top_k, Len(subset))
           /\ \A i \in 1..Len(response.results) :
                \E j \in 1..Len(subset) :
                    /\ subset[j].metadata = response.results[i].metadata
                    /\ response.results[i].score = One - CosineDistance(subset[j].embedding, q)
           /\ \A j \in 1..Len(subset) :
                subset[j].metadata \notin shown
                => \A i \in 1..Len(response.results) :
                    One - CosineDistance(subset[j].embedding, q) <= response.results[i].score

\* C6: the results are in the store's order of ascending distance, so the
\* scores do not increase along the list, and every score is 1.0 minus the
\* distance the store returned
C6_ScoresDescend ==
    SearchSucceeded
    => /\ Len(response.results) = Len(StoreAnswer)
       /\ \A i \in 1..Len(response.results) :
            /\ response.results[i].score = One - StoreAnswer[i].distance
            /\ response.results[i].metadata = StoreAnswer[i].metadata
       /\ \A i, j \in 1..Len(response.results) :
            i < j => /\ StoreAnswer[i].distance <= StoreAnswer[j].distance
                     /\ response.results[i].score >= response.results[j].score

C6_Witness ==
    /\ SearchSucceeded
    /\ Len(response.results) = 2
    /\ response.results[1].score > response.results[2].score

\* C7: the same search with include_content flipped returns the same
\* sequence of (path, title, category, score, metadata); the content is
\* null without include_content and the stored text with it
C7_ContentFlagOnlyChangesContent ==
    SearchSucceeded
    => LET other == SearchResults(entries, request.query, request.top_k,
                                  request.filter_category, ~request.include_content)
           Rest(r) == <<r.path, r.title, r.category, r.score, r.metadata>>
           with == IF request.include_content THEN response.results ELSE other
           without == IF request.include_content THEN other ELSE response.results
       IN  /\ Len(other) = Len(response.results)
           /\ \A i \in 1..Len(other) :
                /\ Rest(other[i]) = Rest(response.results[i])
                /\ without[i].content = None
                /\ with[i].content = Some(StoreAnswer[i].document)

C7_Witness ==
    /\ SearchSucceeded
    /\ ~request.include_content
    /\ Len(response.results) = 2

\* C8: after a successful reset_index the collection is empty; a search that
\* follows it succeeds with no results and total_indexed = 0, and a second
\* reset_index succeeds and leaves the same empty state
C8_ResetEmpties ==
    /\ (response.op = "reset" /\ response.status = 200)
       => /\ Count(entries) = 0
          /\ state.collection
          /\ state.last_indexed = None
    /\ ("after_reset" \in prev /\ response.op = "search")
       => /\ response.status = 200
          /\ response.results = <<>>
          /\ response.total_indexed = 0
    /\ ("after_reset" \in prev /\ response.op = "reset") => response.status = 200

C8_Witness ==
    /\ "after_reset" \in prev
    /\ response.op = "search"
    /\ now > 0

\* C9: a sweep returns success whatever files fail: no file is skipped, every
\* file that did not fail is indexed, every file that failed has exactly one
\* error record, and indexed + errors = total_files
C9_SweepIsolatesFailures ==
    /\ sweep.pc = "running"
       => /\ sweep.total = Len(request.md_files)
          /\ sweep.indexed + Len(sweep.errors) + Len(sweep.files) = sweep.total
          /\ sweep.files = SubSeq(request.md_files,
                                  sweep.total - Len(sweep.files) + 1, sweep.total)
    /\ (request.op = "sweep" /\ response.status = 200)
       => LET errs  == IF response.errors = None THEN <<>> ELSE response.errors[1]
              files == request.md_files
              bad   == {errs[i].file : i \in 1..Len(errs)}
          IN  /\ response.total_files = Len(files)
              /\ response.indexed + Len(errs) = response.total_files
              /\ bad \subseteq {files[i] : i \in 1..Len(files)}
              /\ Cardinality(bad) = Len(errs)
              /\ \A i \in 1..Len(files) :
                    files[i] \notin bad => Md5Hex(RelativeTo(files[i])) \in Ids(entries)

C9_Witness ==
    /\ request.op = "sweep" /\ response.status = 200
    /\ response.total_files = 2
    /\ response.indexed = 1
    /\ response.errors # None
    /\ response.errors[1][1].file = request.md_files[1]

C11_UninitializedIs503 ==
    ((~state.embedder \/ ~state.collection) /\ request.op # "none")
    => /\ request.op \in {"index", "search", "sweep", "delete", "stats", "reset"}
       /\ response.op = request.op
       /\ response.status = 503
       /\ sweep = SweepIdle

C11_Witness ==
    /\ ~state.collection
    /\ Count(entries) = 2
    /\ request.op = "stats"
    /\ response.status = 503

\* C21: a successful delete_document(p) returns the id derived from p,
\* removes the entry of that id and no other, and leaves every other entry
\* as it was; with no entry of that id nothing changes
C21_DeleteRemovesOnlyItsEntry ==
    [][\A p \in Paths :
        (/\ request' = [op |-> "delete", path |-> p]
         /\ response'.op = "delete"
         /\ response'.status = 200)
        => /\ response'.success
           /\ response'.path = p
           /\ response'.doc_id = Md5Hex(p)
           /\ Md5Hex(p) \notin Ids(entries')
           /\ \A i \in 1..Len(entries) :
                entries[i].id # Md5Hex(p) => \E j \in 1..Len(entries') : entries'[j] = entries[i]
           /\ \A j \in 1..Len(entries') : \E i \in 1..Len(entries) : entries[i] = entries'[j]
           /\ Count(entries') =
                Count(entries) - Cardinality({i \in 1..Len(entries) : entries[i].id = Md5Hex(p)})
           /\ Md5Hex(p) \notin Ids(entries) => entries' = entries]_vars

C21_Witness ==
    /\ "redelete" \in prev
    /\ response.op = "delete"
    /\ response.status = 200
    /\ Count(entries) = 1

\* C26: while a sweep still has files to process, a search_vault and an
\* index_document request can be served
C26_SweepDoesNotBlock ==
    (sweep.pc = "running" /\ sweep.files # <<>>)
    => /\ ENABLED (\E query \in Queries, top_k \in TopKs, f \in FilterCategories,
                      inc \in BOOLEAN : search_vault(query, top_k, f, inc))
       /\ ENABLED (\E path \in Paths, content \in RawDocs, extra \in Extras,
                      fault \in Faults : index_document(path, content, extra, fault))

\* C27: every index_document call ends in a response; one that fails in
\* the try block ends in 500 with the error as detail, and the collection
\* and last_indexed are as they were before the call
C27_FailedIndexChangesNothing ==
    [][request'.op = "index"
       => /\ response'.op = "index"
          /\ response'.status \in {200, 500, 503}
          /\ response'.status = 500
             => /\ response'.detail \in {"AttributeError", "EncodeError", "TypeError",
                                         "ValueError", "UpsertError"}
                /\ entries' = entries
                /\ state'.last_indexed = state.last_indexed]_vars

C27_Witness ==
    /\ response.op = "index"
    /\ response.status = 500
    /\ response.detail = "UpsertError"
    /\ Count(entries) = 2
    /\ state.last_indexed # None
    /\ now > 0

\* C28: the entry of every indexed path p has metadata path = p, the title
\* and category parse_markdown derived ("uncategorized" when absent) and
\* indexed_at the time of its latest upsert, whatever the caller's dict
C28_SystemFieldsNotOverridden ==
    \A p \in DOMAIN live :
        \E i \in 1..Len(entries) :
            /\ entries[i].id = Md5Hex(p)
            /\ entries[i].metadata["path"] = p
            /\ entries[i].metadata["title"] = ParsedDocuments[live[p].content][p].title.s
            /\ entries[i].metadata["category"] =
                    (IF Truthy(ParsedDocuments[live[p].content][p].category)
                     THEN ParsedDocuments[live[p].content][p].category.s
                     ELSE Uncategorized)
            /\ entries[i].metadata["indexed_at"] = IsoFormat(live[p].t)

\* the sum of the values of a function of numbers
RECURSIVE SumOf(_)
SumOf(f) ==
    IF DOMAIN f = {} THEN 0
    ELSE LET k == CHOOSE x \in DOMAIN f : TRUE
         IN  f[k] + SumOf([x \in DOMAIN f \ {k} |-> f[x]])

\* C30: get_stats reports total_documents = total_chunks = the collection
\* count, categories that sum to it, and the service's last_indexed;
\* last_indexed is set by a successful index_document, becomes non-null
\* only by a successful index or sweep, and is null after a reset
C30_StatsMatchCollection ==
    [][/\ (response'.op = "stats" /\ response'.status = 200)
          => /\ response'.total_documents = Count(entries')
             /\ response'.total_chunks = Count(entries')
             /\ SumOf(response'.categories) = response'.total_documents
             /\ response'.last_indexed = state'.last_indexed
       /\ (response'.op = "index" /\ response'.status = 200) => state'.last_indexed # None
       /\ (response'.op = "reset" /\ response'.status = 200) => state'.last_indexed = None
       /\ (state.last_indexed = None /\ state'.last_indexed # None)
          => response'.op \in {"index", "sweep"} /\ response'.status = 200
       /\ (state.last_indexed # None /\ state'.last_indexed = None)
          => \/ response'.op = "reset" /\ response'.status = 200
             \/ state' = Uninitialized]_vars

C30_Witness ==
    /\ response.op = "stats"
    /\ response.status = 200
    /\ response.total_documents = 2
    /\ Cardinality(DOMAIN response.categories) = 1
    /\ response.last_indexed # None

(***************************************************************************)
(* Properties of parse_markdown, stated on ParseSpec.                      *)
(***************************************************************************)

ParseDone == request.op = "parse" /\ response.op = "parse"

ParseReturned == ParseDone /\ ~response.doc.raised

\* the frontmatter block the text starts with, and what YAML makes of it
Fm == FrontmatterMatch(request.content)

Loaded == YamlLoad(Fm.group)

\* the frontmatter's fields: those of a block that is a YAML mapping
FrontPairs == IF Fm.hit /\ Loaded.kind = "map" THEN Loaded.pairs ELSE <<>>

\* the body: the text after a block that parsed, else the whole text
BodyText ==
    IF Fm.hit /\ Loaded.kind # "error" THEN From(request.content, Fm.end)
    ELSE request.content

\* the text of the first line of body that is a level-1 heading, "#", blank
\* space and text on one line; None when there is no such line
FirstHeadingText(body) ==
    LET lines == Split(body, NL)
        hits  == {i \in 1..Len(lines) :
                    Len(lines[i]) >= 3 /\ lines[i][1] = "#" /\ IsSpace(lines[i][2])}
    IN  IF hits = {} THEN None
        ELSE Some(Strip(From(lines[CHOOSE i \in hits : \A k \in hits : i <= k], 3)))

\* the title made of the file name: "A" for n/a.md, "C" for c.md,
\* "E F G" for d/e-f_g.md
StemTitle(path) ==
    CASE path = PathNA   -> <<"A">>
      [] path = PathC    -> <<"C">>
      [] path = PathDeep -> <<"E", " ", "F", " ", "G">>

\* the segments of a relative path
Segments(path) == SelectSeq(Split(path, <<"/">>), LAMBDA c : c # <<>>)

\* C12: parse_markdown returns a document, without raising, for every text
\* and path, whether the frontmatter block is a mapping, a scalar, a list,
\* empty or no YAML at all
C12_ParseNeverRaises == ParseDone => ~response.doc.raised

\* C13: for a text that starts with a frontmatter block the call returns,
\* and either the block parsed and content is the trimmed text after the
\* closing delimiter, or it did not parse and metadata is empty and content
\* is the whole text (trimmed, as every content is)
C13_FrontmatterOutcomes ==
    (ParseDone /\ Fm.hit)
    => /\ ~response.doc.raised
       /\ IF Loaded.kind # "error"
          THEN response.doc.content = Strip(From(request.content, Fm.end))
          ELSE /\ response.doc.metadata = <<>>
               /\ response.doc.content = Strip(request.content)

\* C14: the title is the frontmatter title when there is one, else the text
\* of the first level-1 heading of the body when there is one, else the
\* title made of the file name
C14_TitleByPriority ==
    ParseReturned
    => response.doc.title =
        (IF Truthy(DictGet(FrontPairs, KeyTitle)) THEN DictGet(FrontPairs, KeyTitle)
         ELSE IF FirstHeadingText(BodyText) # None
         THEN StrVal(FirstHeadingText(BodyText)[1])
         ELSE StrVal(StemTitle(request.path)))

\* C15: the category is the frontmatter category when there is one, else
\* the first segment of a path of more than one segment, else None
C15_CategoryByPriority ==
    ParseReturned
    => response.doc.category =
        (IF Truthy(DictGet(FrontPairs, KeyCategory)) THEN DictGet(FrontPairs, KeyCategory)
         ELSE IF Len(Segments(request.path)) > 1
         THEN StrVal(Segments(request.path)[1])
         ELSE NullVal)

C15_Witness ==
    /\ ParseReturned
    /\ Fm.hit
    /\ FrontPairs # <<>>
    /\ request.path = PathC
    /\ response.doc.category = NullVal

\* C16: tags given as a sequence or as a comma-separated string come back
\* as the sequence of the source's items in source order, each trimmed
C16_TagsTrimmedInOrder ==
    (ParseReturned /\ DictGet(FrontPairs, KeyTags).t \in {"str", "seq"})
    => LET given == DictGet(FrontPairs, KeyTags)
           items == IF given.t = "str" THEN Split(given.s, <<",">>) ELSE given.items
       IN  /\ response.doc.tags.t = "seq"
           /\ Len(response.doc.tags.items) = Len(items)
           /\ \A i \in 1..Len(items) : response.doc.tags.items[i] = Strip(items[i])

(***************************************************************************)
(* Properties of chunk_document, stated on ChunkSpec.                      *)
(***************************************************************************)

ChunkDone == request.op = "chunk" /\ response.op = "chunk"

\* the non-empty paragraphs of a text, trimmed
Paragraphs(content) == StripAll(Split(content, <<"\n", "\n">>))

\* the units of a text in document order: its paragraphs, a paragraph
\* longer than chunk_size replaced by its sentences
RECURSIVE UnitsOf(_, _)
UnitsOf(paragraphs, chunk_size) ==
    IF paragraphs = <<>> THEN <<>>
    ELSE (IF Len(Head(paragraphs)) > chunk_size THEN split_sentences(Head(paragraphs))
          ELSE <<Head(paragraphs)>>)
         \o UnitsOf(Tail(paragraphs), chunk_size)

Units == UnitsOf(Paragraphs(request.content), request.chunk_size)

\* every unit occurs in a chunk, at or after the chunk of the unit before it
RECURSIVE InOrder(_, _, _)
InOrder(units, chunks, k) ==
    IF units = <<>> THEN TRUE
    ELSE LET hits == {j \in k..Len(chunks) : Find(chunks[j], Head(units), 1) # 0}
         IN  /\ hits # {}
             /\ InOrder(Tail(units), chunks, CHOOSE j \in hits : \A h \in hits : j <= h)

EndsWith(s, u) == Len(u) <= Len(s) /\ SubSeq(s, Len(s) - Len(u) + 1, Len(s)) = u

\* C17: a document of at most chunk_size characters, exactly chunk_size
\* included, comes back as the one chunk that is its content, unaltered
C17_ShortDocumentIsOneChunk ==
    (ChunkDone /\ Len(request.content) <= request.chunk_size)
    => response.chunks = <<request.content>>

C17_Witness ==
    /\ ChunkDone
    /\ Len(request.content) = request.chunk_size
    /\ Strip(request.content) # request.content
    /\ response.chunks = <<request.content>>

\* C18: of a document longer than chunk_size every chunk has at most
\* chunk_size characters, but for a chunk that is one single sentence (or
\* paragraph without a sentence boundary) itself longer than chunk_size
C18_ChunksWithinSize ==
    (ChunkDone /\ Len(request.content) > request.chunk_size)
    => \A i \in 1..Len(response.chunks) :
        \/ Len(response.chunks[i]) <= request.chunk_size
        \/ /\ split_sentences(response.chunks[i]) = <<response.chunks[i]>>
           /\ \E k \in 1..Len(Units) : Units[k] = response.chunks[i]

C18_Witness ==
    /\ ChunkDone
    /\ Len(request.content) > request.chunk_size
    /\ \E i, j \in 1..Len(response.chunks) :
        /\ Len(response.chunks[i]) = request.chunk_size
        /\ Len(response.chunks[j]) > request.chunk_size

\* C19: every chunk of every document, the empty document included, is
\* non-empty after trimming
C19_NoEmptyChunk ==
    ChunkDone => \A i \in 1..Len(response.chunks) : Strip(response.chunks[i]) # <<>>

\* C20: every non-empty paragraph, and every sentence of a paragraph longer
\* than chunk_size, occurs in a chunk; the units occur along the chunks in
\* document order; the last chunk ends with the last unit
C20_NothingDroppedInOrder ==
    ChunkDone
    => /\ InOrder(Units, response.chunks, 1)
       /\ Units # <<>>
          => /\ response.chunks # <<>>
             /\ EndsWith(Strip(response.chunks[Len(response.chunks)]), Units[Len(Units)])

C20_Witness ==
    /\ ChunkDone
    /\ Len(request.content) > request.chunk_size
    /\ Len(Paragraphs(request.content)) >= 2
    /\ Len(Units) > Len(Paragraphs(request.content))
    /\ Len(response.chunks) >= 3

\* the characters of a text that are no whitespace
NonSpace(text) == SelectSeq(text, LAMBDA c : ~IsSpace(c))

RECURSIVE Concat(_)
Concat(parts) == IF parts = <<>> THEN <<>> ELSE Head(parts) \o Concat(Tail(parts))

\* C25: no paragraph or sentence is in more than one chunk and no buffer is
\* emitted twice: the chunks, one after the other, hold the characters of
\* the content once each (whitespace apart)
C25_NoContentRepeated ==
    ChunkDone => NonSpace(Concat(response.chunks)) = NonSpace(request.content)

(***************************************************************************)
(* Properties of similarity, stated on SimSpec.                            *)
(***************************************************************************)

SimDone == request.op = "similarity" /\ response.op = "similarity"

\* every component of the array is 0
IsZeroVector(a) == \A i \in 1..Len(a) : \A j \in 1..Len(a[i]) : a[i][j] = 0

\* C22: similarity of two arrays of which one is a zero vector is 0.0, and
\* in no call is there a division by a zero norm
C22_ZeroNormGivesZero ==
    SimDone
    => /\ response.result.kind = "float"
       /\ response.result.divisor # Some(0)
       /\ (IsZeroVector(request.embedding1) \/ IsZeroVector(request.embedding2))
          => /\ response.result.num = 0
             /\ response.result.divisor = None

C22_Witness ==
    /\ SimDone
    /\ IsZeroVector(request.embedding1)
    /\ ~IsZeroVector(request.embedding2)
    /\ Len(request.embedding2) = 2
    /\ response.result = Zero

(***************************************************************************)
(* Properties of the browser service, stated on BrowserSpec.               *)
(***************************************************************************)

Operations ==
    {"navigate", "click", "fill", "upload", "screenshot", "content", "extract",
     "task", "action"}

\* C23: an operation endpoint called while the browser is not connected
\* answers with a failure (success false in the body, or status 400) and
\* leaves connected, browser and context as they were
C23_NotConnectedOperationFails ==
    [][(/\ response' # response
        /\ response'.op \in Operations
        /\ ~state.connected)
       => /\ (response'.success = FALSE \/ response'.status = 400)
          /\ state'.connected = state.connected
          /\ state'.browser = state.browser
          /\ state'.context = state.context]_vars

C23_Witness ==
    /\ response.op = "screenshot"
    /\ response.success = FALSE
    /\ response.error = "400: Browser not connected"
    /\ ~state.connected
    /\ state.browser # None

\* a step in which a disconnect request is answered
DisconnectAnswered ==
    /\ response'.op = "disconnect"
    /\ \/ response' # response
       \/ \E frame \in BagToSet(request) :
            frame.op = "disconnect" /\ request' = Others(frame)

\* C24: every disconnect is answered with success; after the answer
\* connected is false and browser and context are None; a disconnect called
\* in that state changes nothing
C24_DisconnectAlwaysClears ==
    [][DisconnectAnswered
       => /\ response'.status = 200
          /\ response'.success
          /\ state'.connected = FALSE
          /\ state'.browser = None
          /\ state'.context = None
          /\ (state = Cleared(state) /\ request' = request)
                => (state' = state /\ entries' = entries)]_vars

\* the instances that are open and that neither state.browser nor
\* state.context refers to
Unreferenced ==
    {b \in 1..Len(entries) :
        entries[b] = "open" /\ state.browser # Some(b) /\ state.context # Some(b)}

\* C29: whenever no connect or disconnect request is in flight, connected
\* implies that browser and context are both set, and at most one open
\* instance is unreferenced by the state
C29_QuiescentStateConsistent ==
    request = EmptyBag
    => /\ state.connected => (state.browser # None /\ state.context # None)
       /\ Cardinality(Unreferenced) <= 1


=============================================================================
